---- MODULE Spec2Model ----
(***************************************************************************)
(* Device trust and request authentication of the FinPin serverless API:   *)
(* SecurityManager (src/src/security.ts) and the registerDevice and        *)
(* parseExpense handlers (handlers.ts, kept in src/unnamed/part_002).      *)
(*                                                                         *)
(* Time is counted in ticks.  One minute (60 * 1000 ms in the source) is   *)
(* MsPerMinute ticks; every duration of the source is converted with that  *)
(* factor, so the comparisons of the code keep their form and their        *)
(* boundary cases (exactly at the window, one tick past it).               *)
(*                                                                         *)
(* SHA-256, HMAC-SHA256, base64 and hex are modelled symbolically: each is *)
(* an injective string constructor, i.e. the hash functions are taken to   *)
(* be collision free.  String concatenation is TLC's \o on strings.        *)
(***************************************************************************)
EXTENDS Integers, Sequences, FiniteSets, TLC

(***************************************************************************)
(* Bounds of the model.                                                    *)
(***************************************************************************)
\* ticks per minute: the scaled value of 60 * 1000 ms
MsPerMinute == 2
\* env.SIGNATURE_VALIDITY_MINUTES ("5" in the shipped wrangler.toml)
SIGNATURE_VALIDITY_MINUTES == 1
\* env.RATE_LIMIT_PER_MINUTE ("10" in the shipped wrangler.toml)
RATE_LIMIT_PER_MINUTE == 2
\* the clock advances at most this many single ticks inside one epoch
MaxNow == 3
\* requests_count values above this are not explored
MaxCount == 2
\* calls that can be in flight at once
NumProcs == 2
\* the last instant of the whole-call handler runs
MaxHandlersNow == 1

(***************************************************************************)
(* Program constants.                                                      *)
(***************************************************************************)
\* expirationTtl of a device record, in seconds (86400 * 30)
DEVICE_TTL_SECONDS == 86400 * 30
\* expirationTtl of a rate window, in seconds
RATE_TTL_SECONDS == 3600

\* durations are converted from seconds: the millisecond values of the source
\* (30 days is 2592000000 ms) exceed TLC's 32-bit integers
SecondsToTicks(s) == (s \div 60) * MsPerMinute
DeviceTtl == SecondsToTicks(DEVICE_TTL_SECONDS)
RateTtl == SecondsToTicks(RATE_TTL_SECONDS)

DeviceIds == {"d1", "d2"}
MASTER_KEY_SEED == "MASTER"
JWT_SECRET == "JWT"

(***************************************************************************)
(* Strings of characters, decimal conversion and parseInt.  A header value *)
(* that the code parses is a sequence of one-character strings; Join gives *)
(* the string the code concatenates.                                       *)
(***************************************************************************)
DigitChars == <<"0", "1", "2", "3", "4", "5", "6", "7", "8", "9">>

IsDigit(c) == \E i \in 1..10 : DigitChars[i] = c

DigitValue(c) == (CHOOSE i \in 1..10 : DigitChars[i] = c) - 1

RECURSIVE Join(_)
Join(cs) == IF cs = <<>> THEN "" ELSE Head(cs) \o Join(Tail(cs))

\* Number.prototype.toString of a non-negative integer, as characters
RECURSIVE DecimalChars(_)
DecimalChars(n) ==
    IF n < 10 THEN <<DigitChars[n + 1]>>
    ELSE DecimalChars(n \div 10) \o <<DigitChars[(n % 10) + 1]>>

numberToString(n) == Join(DecimalChars(n))

RECURSIVE SkipSpaces(_)
SkipSpaces(cs) ==
    IF cs # <<>> /\ Head(cs) = " " THEN SkipSpaces(Tail(cs)) ELSE cs

RECURSIVE LeadingDigits(_)
LeadingDigits(cs) ==
    IF cs # <<>> /\ IsDigit(Head(cs))
    THEN <<Head(cs)>> \o LeadingDigits(Tail(cs))
    ELSE <<>>

RECURSIVE DigitsValue(_, _)
DigitsValue(cs, acc) ==
    IF cs = <<>> THEN acc
    ELSE DigitsValue(Tail(cs), acc * 10 + DigitValue(Head(cs)))

NaN == [nan |-> TRUE, val |-> 0]
Num(n) == [nan |-> FALSE, val |-> n]

\* parseInt(string): leading white space, an optional sign, then the longest
\* run of decimal digits; NaN when there is no digit
parseInt(cs) ==
    LET s == SkipSpaces(cs)
        neg == s # <<>> /\ Head(s) = "-"
        signed == s # <<>> /\ Head(s) \in {"-", "+"}
        rest == IF signed THEN Tail(s) ELSE s
        ds == LeadingDigits(rest)
    IN  IF ds = <<>> THEN NaN
        ELSE Num(IF neg THEN 0 - DigitsValue(ds, 0) ELSE DigitsValue(ds, 0))

Abs(n) == IF n < 0 THEN 0 - n ELSE n

\* variant: >= in place of >
AbsDiffGreater_orEqual(a, b, w) == ~b.nan /\ Abs(a - b.val) >= w

\* variant: only a timestamp ahead of the clock is outside the window
AbsDiffGreater_aheadOnly(a, b, w) == ~b.nan /\ b.val - a > w

\* Math.abs(a - b) > w, with b a parsed number: every comparison with NaN is false
AbsDiffGreater(a, b, w) == ~b.nan /\ Abs(a - b.val) > w

(***************************************************************************)
(* Request bodies of the expense endpoint: JSON text with or without white *)
(* space, and a text that is no JSON.                                      *)
(***************************************************************************)
Texts == {"tea", "bus"}
Spacings == {"", " "}

renderExpense(text, spacing) ==
    "{" \o spacing \o "\"text\":" \o spacing \o "\"" \o text \o "\"}"

ExpenseBodies == {renderExpense(t, sp) : t \in Texts, sp \in Spacings}

\* JSON.parse(rawRequestBody): white space between tokens is not part of the value
JSONparseBody(raw) ==
    IF \E t \in Texts \cup {""}, sp \in Spacings : renderExpense(t, sp) = raw
    THEN [ok |-> TRUE,
          value |-> [text |-> CHOOSE t \in Texts \cup {""} :
                                  \E sp \in Spacings : renderExpense(t, sp) = raw]]
    ELSE [ok |-> FALSE]

(***************************************************************************)
(* Cryptographic primitives (crypto.subtle), symbolic.                     *)
(***************************************************************************)
Sha256(data) == "sha256(" \o data \o ")"
HmacSha256(key, data) == "hmac(" \o key \o "|" \o data \o ")"
btoa(bytes) == "b64[" \o bytes \o "]"
toHex(bytes) == "hex[" \o bytes \o "]"

generateHMAC(key, message) == btoa(HmacSha256(key, message))

\* variant: the digest of the re-encoded JSON value instead of the text
hashString_reencoded(input) ==
    toHex(Sha256(IF JSONparseBody(input).ok
                 THEN renderExpense(JSONparseBody(input).value.text, "")
                 ELSE input))

hashString(input) == toHex(Sha256(input))

\* variant: the seed data leaves out the timestamp
generateKeySeed_noTimestamp(deviceId, clock) ==
    btoa(HmacSha256(MASTER_KEY_SEED, MASTER_KEY_SEED \o ":" \o deviceId))

generateKeySeed(deviceId, clock) ==
    LET timestamp == numberToString(clock)
        seedData == MASTER_KEY_SEED \o ":" \o deviceId \o ":" \o timestamp
    IN  btoa(HmacSha256(MASTER_KEY_SEED, seedData))

(***************************************************************************)
(* The key-value store (KVNamespace): get, and put with expirationTtl.     *)
(* An entry whose time-to-live has elapsed reads as null.                  *)
(***************************************************************************)
NoEntry == [present |-> FALSE]
Null == [isNull |-> TRUE]
IsNull(x) == "isNull" \in DOMAIN x

\* JSON.stringify / JSON.parse of a value the program stores: the text is
\* kept as the value it encodes, tagged as text
JSONstringify(v) == [json |-> v]
JSONparse(text) == text.json

\* variant: a get that ignores the time-to-live
kvGet_noExpiry(store, key, clock) ==
    IF store[key].present THEN store[key].value ELSE Null

kvGet(store, key, clock) ==
    IF store[key].present /\ clock < store[key].expires
    THEN store[key].value
    ELSE Null

\* variant: a put over a live entry keeps the expiry the entry has
kvPut_keepExpiry(store, key, value, ttl, clock) ==
    [store EXCEPT ![key] =
        [present |-> TRUE, value |-> value,
         expires |-> IF store[key].present /\ clock < store[key].expires
                     THEN store[key].expires ELSE clock + ttl]]

\* variant: every put goes to one key, whatever key it is given
kvPut_oneKey(store, key, value, ttl, clock) ==
    [store EXCEPT !["d1"] = [present |-> TRUE, value |-> value, expires |-> clock + ttl]]

kvPut(store, key, value, ttl, clock) ==
    [store EXCEPT ![key] = [present |-> TRUE, value |-> value, expires |-> clock + ttl]]

\* Date.prototype.toISOString of the instant clock
toISOString(clock) == [iso |-> clock]

(***************************************************************************)
(* DeviceRegistry: storeDeviceInfo, getDeviceInfo, updateDeviceLastSeen.   *)
(***************************************************************************)
\* variant: the record is put with a time-to-live of zero
storeDeviceInfo_zeroTtl(cache, deviceInfo, clock) ==
    kvPut(cache, deviceInfo.device_id, JSONstringify(deviceInfo), 0, clock)

storeDeviceInfo(cache, deviceInfo, clock) ==
    kvPut(cache, deviceInfo.device_id, JSONstringify(deviceInfo), DeviceTtl, clock)

getDeviceInfo(cache, deviceId, clock) ==
    LET data == kvGet(cache, deviceId, clock)
    IN  IF IsNull(data) THEN Null ELSE JSONparse(data)

\* variant: the record is rebuilt without the client metadata
touchRecord_dropInfo(deviceInfo, clock) ==
    [deviceInfo EXCEPT !.last_seen = toISOString(clock),
                       !.request_count = @ + 1,
                       !.device_info = [k \in DOMAIN @ |-> ""]]

\* variant: last_seen is set, the increment is left out
touchRecord_noIncrement(deviceInfo, clock) ==
    [deviceInfo EXCEPT !.last_seen = toISOString(clock)]

\* the record updateDeviceLastSeen writes back
touchRecord(deviceInfo, clock) ==
    [deviceInfo EXCEPT !.last_seen = toISOString(clock),
                       !.request_count = @ + 1]

\* variant: with no record stored, a fresh one is written
updateDeviceLastSeen_upsert(cache, deviceId, clock) ==
    LET deviceInfo == getDeviceInfo(cache, deviceId, clock)
        fresh == [device_id |-> deviceId, key_seed |-> "",
                  registered_at |-> toISOString(clock),
                  last_seen |-> toISOString(clock), request_count |-> 0,
                  device_info |-> [k \in {} |-> ""]]
    IN  storeDeviceInfo(cache,
                        touchRecord(IF IsNull(deviceInfo) THEN fresh ELSE deviceInfo,
                                    clock),
                        clock)

updateDeviceLastSeen(cache, deviceId, clock) ==
    LET deviceInfo == getDeviceInfo(cache, deviceId, clock)
    IN  IF IsNull(deviceInfo) THEN cache
        ELSE storeDeviceInfo(cache, touchRecord(deviceInfo, clock), clock)

(***************************************************************************)
(* SignatureVerifier.  The outcome of a call is a return value or a thrown *)
(* error.  fault names the step that fails for a reason outside the        *)
(* program: the store's get, the decoding of the stored text, or a         *)
(* crypto.subtle call.                                                     *)
(***************************************************************************)
Return(v) == [kind |-> "return", value |-> v]
Throw(e) == [kind |-> "throw", error |-> e]

Faults == {"none", "get", "decode", "crypto"}

validityWindow == SIGNATURE_VALIDITY_MINUTES * MsPerMinute

\* variant: the device id put before the timestamp
signedMessage_deviceFirst(timestamp, deviceId, requestBody) ==
    deviceId \o Join(timestamp) \o toHex(Sha256(requestBody))

\* the message verifySignature signs: `${timestamp}${deviceId}${hash}`
signedMessage(timestamp, deviceId, requestBody) ==
    Join(timestamp) \o deviceId \o hashString(requestBody)

\* the try block of verifySignature
verifySignatureTry(cache, deviceId, timestamp, signature, requestBody, clock, fault) ==
    IF fault = "get" THEN Throw("KVError")
    ELSE IF fault = "decode" /\ ~IsNull(kvGet(cache, deviceId, clock))
    THEN Throw("SyntaxError")
    ELSE LET deviceInfo == getDeviceInfo(cache, deviceId, clock)
         IN  IF IsNull(deviceInfo) THEN Throw("AuthenticationError")
             ELSE IF AbsDiffGreater(clock, parseInt(timestamp), validityWindow)
             THEN Throw("AuthenticationError")
             ELSE IF fault = "crypto" THEN Throw("OperationError")
             ELSE Return(signature =
                    generateHMAC(deviceInfo.key_seed,
                                 signedMessage(timestamp, deviceId, requestBody)))

\* variant: no catch, the error leaves the call
catchReturnFalse_rethrow(outcome) == outcome

\* try { ... } catch (error) { return false }
catchReturnFalse(outcome) ==
    IF outcome.kind = "throw" THEN Return(FALSE) ELSE outcome

verifySignature(cache, deviceId, timestamp, signature, requestBody, clock, fault) ==
    catchReturnFalse(
        verifySignatureTry(cache, deviceId, timestamp, signature, requestBody, clock, fault))

(***************************************************************************)
(* TokenIssuer.  The payload reads Date.now() twice: issuedClock and       *)
(* expiresClock are the two readings.                                      *)
(***************************************************************************)
tokenPayload(deviceId, issuedClock, expiresClock) ==
    [device_id |-> deviceId,
     issued_at |-> issuedClock,
     expires_at |-> expiresClock + SecondsToTicks(86400 * 30)]

\* JSON.stringify(payload), as the string that is signed and encoded
payloadJson(payload) ==
    "{device_id:" \o payload.device_id
        \o ",issued_at:" \o numberToString(payload.issued_at)
        \o ",expires_at:" \o numberToString(payload.expires_at) \o "}"

generateDeviceToken(deviceId, issuedClock, expiresClock) ==
    LET json == payloadJson(tokenPayload(deviceId, issuedClock, expiresClock))
        signatureBase64 == btoa(HmacSha256(JWT_SECRET, json))
    IN  btoa(json) \o "." \o signatureBase64

(***************************************************************************)
(* registerDevice (handlers.ts).  A request body is JSON text or not; the  *)
(* zod schema checks the fields and drops the keys it does not declare.    *)
(***************************************************************************)
SchemaKeys == {"model", "os_version", "app_version", "platform"}
Platforms == {"ios", "android"}

NotJson == [json |-> FALSE]
JsonBody(v) == [json |-> TRUE, value |-> v]

lengthBetween(str, lo, hi) == Len(str) >= lo /\ Len(str) <= hi

\* deviceRegistrationSchema.parse(body): success with the declared keys only,
\* or a ZodError
deviceRegistrationSchema(body) ==
    LET info == body.device_info
    IN  IF /\ lengthBetween(body.device_id, 1, 100)
           /\ lengthBetween(info.model, 1, 50)
           /\ lengthBetween(info.os_version, 1, 20)
           /\ lengthBetween(info.app_version, 1, 20)
           /\ info.platform \in Platforms
        THEN [success |-> TRUE,
              data |-> [device_id |-> body.device_id,
                        device_info |-> [k \in SchemaKeys |-> info[k]]]]
        ELSE [success |-> FALSE]

errorResponse(status, message) ==
    [status |-> status, success |-> FALSE, error |-> message]

\* the handler from the body to the response; fault "json" is a body that
\* is no JSON, fault "put" a failing store put
registerDevice(cache, body, clock, expiresClock, fault) ==
    IF ~body.json
    THEN [response |-> errorResponse(500, "Registration failed"), cache |-> cache]
    ELSE LET validated == deviceRegistrationSchema(body.value)
         IN  IF ~validated.success
             THEN [response |-> errorResponse(400, "Invalid request data"),
                   cache |-> cache]
             ELSE LET validatedData == validated.data
                      keySeed == generateKeySeed(validatedData.device_id, clock)
                      deviceToken ==
                          generateDeviceToken(validatedData.device_id, clock, expiresClock)
                      deviceInfo ==
                          [device_id |-> validatedData.device_id,
                           key_seed |-> keySeed,
                           registered_at |-> toISOString(clock),
                           last_seen |-> toISOString(clock),
                           request_count |-> 0,
                           device_info |-> validatedData.device_info]
                  IN  IF fault = "put"
                      THEN [response |-> errorResponse(500, "Registration failed"),
                            cache |-> cache]
                      ELSE [response |->
                                [status |-> 200,
                                 success |-> TRUE,
                                 data |-> [key_seed |-> keySeed,
                                           expires_at |->
                                               toISOString(clock
                                                   + SecondsToTicks(30 * 24 * 60 * 60)),
                                           device_token |-> deviceToken]],
                            cache |-> storeDeviceInfo(cache, deviceInfo, clock)]

(***************************************************************************)
(* RateLimiter.  checkRateLimit reads Date.now() first, then gets the      *)
(* window, filters and checks it, and puts the window with now appended.   *)
(***************************************************************************)
\* variant: >= in place of >
IsRecent_orEqual(timestamp, clock) == timestamp >= clock - SecondsToTicks(60)

\* timestamp > windowStart, with windowStart = now - 60 * 1000
IsRecent(timestamp, clock) == timestamp > clock - SecondsToTicks(60)

\* variant: the filter keeps the old timestamps and drops the recent ones
recentRequests_keepOld(requests, clock) ==
    SelectSeq(requests, LAMBDA timestamp : ~IsRecent(timestamp, clock))

\* requests.filter(timestamp => timestamp > windowStart)
recentRequests(requests, clock) ==
    SelectSeq(requests, LAMBDA timestamp : IsRecent(timestamp, clock))

\* variant: > in place of >= in the ceiling check
rateLimitDecide_offByOne(currentCount, clock) ==
    LET requests == IF IsNull(currentCount) THEN <<>> ELSE JSONparse(currentCount)
        recent == recentRequests(requests, clock)
    IN  IF Len(recent) > RATE_LIMIT_PER_MINUTE
        THEN [outcome |-> Throw("RateLimitError"), write |-> <<>>]
        ELSE [outcome |-> Return(TRUE), write |-> Append(recent, clock)]

\* variant: now is pushed onto the window as it was read, not onto the
\* filtered one
rateLimitDecide_keepAll(currentCount, clock) ==
    LET requests == IF IsNull(currentCount) THEN <<>> ELSE JSONparse(currentCount)
        recent == recentRequests(requests, clock)
    IN  IF Len(recent) >= RATE_LIMIT_PER_MINUTE
        THEN [outcome |-> Throw("RateLimitError"), write |-> <<>>]
        ELSE [outcome |-> Return(TRUE), write |-> Append(requests, clock)]

\* from the text the get returned to the outcome and, on success, the window
\* to put
rateLimitDecide(currentCount, clock) ==
    LET requests == IF IsNull(currentCount) THEN <<>> ELSE JSONparse(currentCount)
        recent == recentRequests(requests, clock)
    IN  IF Len(recent) >= RATE_LIMIT_PER_MINUTE
        THEN [outcome |-> Throw("RateLimitError"), write |-> <<>>]
        ELSE [outcome |-> Return(TRUE), write |-> Append(recent, clock)]

\* variant: the filtered window is put before the ceiling is checked
checkRateLimit_putBeforeCheck(rateLimit, deviceId, clock, fault) ==
    IF fault = "get" THEN [outcome |-> Throw("KVError"), rateLimit |-> rateLimit]
    ELSE LET current == kvGet(rateLimit, deviceId, clock)
             decided == rateLimitDecide(current, clock)
             recent == recentRequests(IF IsNull(current) THEN <<>>
                                      ELSE JSONparse(current), clock)
         IN  IF fault = "put"
             THEN [outcome |-> Throw("KVError"), rateLimit |-> rateLimit]
             ELSE [outcome |-> decided.outcome,
                   rateLimit |->
                       kvPut(rateLimit, deviceId,
                             JSONstringify(IF decided.outcome.kind = "throw"
                                           THEN recent ELSE decided.write),
                             RateTtl, clock)]

\* the whole call with no other call in between; fault names a failing
\* store operation
checkRateLimit(rateLimit, deviceId, clock, fault) ==
    IF fault = "get" THEN [outcome |-> Throw("KVError"), rateLimit |-> rateLimit]
    ELSE LET decided == rateLimitDecide(kvGet(rateLimit, deviceId, clock), clock)
         IN  IF decided.outcome.kind = "throw"
             THEN [outcome |-> decided.outcome, rateLimit |-> rateLimit]
             ELSE IF fault = "put"
             THEN [outcome |-> Throw("KVError"), rateLimit |-> rateLimit]
             ELSE [outcome |-> decided.outcome,
                   rateLimit |-> kvPut(rateLimit, deviceId,
                                       JSONstringify(decided.write), RateTtl, clock)]

(***************************************************************************)
(* State.                                                                  *)
(***************************************************************************)
VARIABLES
    now,         \* Date.now(), in ticks
    CACHE,       \* env.CACHE: device id -> entry ("device:" keys)
    RATE_LIMIT,  \* env.RATE_LIMIT: device id -> entry ("rate_limit:" keys)
    last,        \* the call that has just completed: its inputs and outcome
                 \* (none once time has moved on)
    admitted,    \* device id -> the checkRateLimit calls that returned normally,
                 \* in the order of their return: the instant each recorded
                 \* and whether another call of the device was in flight
                 \* during it (history)
    procs,       \* the calls in flight, each suspended at a store get or put
    audit        \* device id -> the key_seed the last completed registerDevice
                 \* call of the device returned ("" before the first) and the
                 \* number of parseExpense requests of the device that have
                 \* passed verifySignature since (history)

vars == <<now, CACHE, RATE_LIMIT, last, admitted, procs, audit>>

Procs == 1..NumProcs
Idle == [op |-> "idle"]

Init ==
    /\ now = 0
    /\ CACHE = [d \in DeviceIds |-> NoEntry]
    /\ RATE_LIMIT = [d \in DeviceIds |-> NoEntry]
    /\ last = [op |-> "none"]
    /\ admitted = [d \in DeviceIds |-> <<>>]
    /\ procs = [p \in Procs |-> Idle]
    /\ audit = [d \in DeviceIds |-> [returned |-> "", verified |-> 0]]

(***************************************************************************)
(* The clock.  Tick advances it by one; MonthPasses by one tick less than  *)
(* the device time-to-live, so that records written just before it are at  *)
(* the last instant of their life.  No request lasts a month: MonthPasses  *)
(* happens between requests.                                               *)
(***************************************************************************)
EpochStart == DeviceTtl - 1
EpochOffset(clock) == IF clock >= EpochStart THEN clock - EpochStart ELSE clock

NoCall == [op |-> "none"]

Tick ==
    /\ EpochOffset(now) < MaxNow
    /\ now' = now + 1
    /\ last' = NoCall
    /\ UNCHANGED <<CACHE, RATE_LIMIT, admitted, procs, audit>>

\* the caller has taken the result of the call that has just completed
Observed ==
    /\ last # NoCall
    /\ last' = NoCall
    /\ UNCHANGED <<now, CACHE, RATE_LIMIT, admitted, procs, audit>>

MonthPasses ==
    /\ now < EpochStart
    /\ \A p \in Procs : procs[p] = Idle
    /\ now' = now + EpochStart
    /\ last' = NoCall
    /\ UNCHANGED <<CACHE, RATE_LIMIT, admitted, procs, audit>>

(***************************************************************************)
(* Whole calls, one after another.                                         *)
(***************************************************************************)
InfoA == [model |-> "iPhone", os_version |-> "17", app_version |-> "1.0",
          platform |-> "ios"]
InfoB == [model |-> "Pixel", os_version |-> "14", app_version |-> "1.1",
          platform |-> "android"]
\* a client that sends a key the schema does not declare
InfoVendor == [model |-> "iPhone", os_version |-> "17", app_version |-> "1.0",
               platform |-> "ios", vendor |-> "acme"]
\* a platform outside the schema's enum
InfoWeb == [model |-> "Mac", os_version |-> "14", app_version |-> "1.0",
            platform |-> "web"]

registrationBody(deviceId, info) ==
    JsonBody([device_id |-> deviceId, device_info |-> info])

\* registerDevice with a body of bodies; skews are the ticks the clock may
\* advance between the two Date.now() of the token payload
RegisterDeviceCall(bodies, skews, faults) ==
    /\ last = NoCall
    /\ \E body \in bodies, skew \in skews, fault \in faults :
        LET run == registerDevice(CACHE, body, now, now + skew, fault)
        IN  /\ CACHE' = run.cache
            /\ last' = [op |-> "registerDevice", body |-> body, at |-> now,
                        fault |-> fault, response |-> run.response,
                        before |-> IF body.json /\ body.value.device_id \in DeviceIds
                                   THEN getDeviceInfo(CACHE, body.value.device_id, now)
                                   ELSE Null]
            /\ audit' = IF run.response.status = 200
                        THEN [audit EXCEPT ![body.value.device_id] =
                                [returned |-> run.response.data.key_seed,
                                 verified |-> 0]]
                        ELSE audit
            /\ UNCHANGED <<now, RATE_LIMIT, admitted, procs>>

\* the signature a client computes (spec 4.3 and 6):
\* base64(HMAC-SHA256(key_seed, timestamp + deviceId + hex(SHA256(rawBody))))
clientSignature(keySeed, timestamp, deviceId, rawBody) ==
    btoa(HmacSha256(keySeed, Join(timestamp) \o deviceId \o toHex(Sha256(rawBody))))

signedChars(t) == IF t < 0 THEN <<"-">> \o DecimalChars(0 - t) ELSE DecimalChars(t)

\* x-timestamp values tried at the instant clock: at and just outside both
\* ends of the validity window, the instant itself, the instant 0 (a request
\* signed then and sent again), one with trailing text and one with no digit
TimestampInputs(clock) ==
    {signedChars(t) : t \in {clock - validityWindow - 1, clock - validityWindow,
                             clock, clock + validityWindow,
                             clock + validityWindow + 1, 0}}
        \cup {DecimalChars(clock) \o <<"z">>, <<"a", "b", "c">>}

\* the secrets a caller may hold: every key_seed in the store (one of an
\* expired record too) and a guess
CandidateKeys(cache) ==
    {JSONparse(cache[d].value).key_seed : d \in {x \in DeviceIds : cache[x].present}}
        \cup {"guess"}

VerifyBodies == {renderExpense("tea", ""), renderExpense("tea", " "),
                 renderExpense("bus", "")}

SignatureInputs(cache, deviceId, timestamp) ==
    {clientSignature(k, timestamp, deviceId, b) :
        k \in CandidateKeys(cache), b \in VerifyBodies} \cup {"AAAA"}

VerifySignatureCall ==
    /\ last = NoCall
    /\ \E d \in DeviceIds, ts \in TimestampInputs(now), body \in VerifyBodies,
          fault \in Faults :
        \E sig \in SignatureInputs(CACHE, d, ts) :
            /\ last' = [op |-> "verifySignature", deviceId |-> d, timestamp |-> ts,
                        signature |-> sig, requestBody |-> body, fault |-> fault,
                        at |-> now,
                        outcome |-> verifySignature(CACHE, d, ts, sig, body, now, fault)]
            /\ UNCHANGED <<now, CACHE, RATE_LIMIT, admitted, procs, audit>>

VerifyRegister ==
    RegisterDeviceCall({registrationBody(d, InfoA) : d \in DeviceIds}, {0}, {"none"})

NextVerify == VerifyRegister \/ VerifySignatureCall \/ Observed \/ Tick \/ MonthPasses

SpecVerify == Init /\ [][NextVerify]_vars

(***************************************************************************)
(* Properties of verifySignature, checked under SpecVerify.                *)
(***************************************************************************)
\* the record of deviceId exists at the instant clock: it was stored and its
\* time-to-live has not elapsed
RecordExists(deviceId, clock) ==
    CACHE[deviceId].present /\ clock < CACHE[deviceId].expires

StoredKeySeed(deviceId) == JSONparse(CACHE[deviceId].value).key_seed

IsVerifyCall == last.op = "verifySignature"

\* the timestamp of the call parses to a number within the validity window
TimestampInWindow ==
    /\ ~parseInt(last.timestamp).nan
    /\ Abs(last.at - parseInt(last.timestamp).val) <= validityWindow

\* the signature of the call is the one a client holding the stored key_seed
\* computes over the call's timestamp, device id and the body rawBody
SignedWithStoredKeyOver(rawBody) ==
    /\ CACHE[last.deviceId].present
    /\ last.signature =
         clientSignature(StoredKeySeed(last.deviceId), last.timestamp,
                         last.deviceId, rawBody)

\* C1: for a registered device, a timestamp within the validity window and the
\* signature base64(HMAC-SHA256(key_seed, ts + d + hex(SHA256(B)))) over the
\* body B of the call, verifySignature returns true.
C1_CorrectSignatureVerifies ==
    ( /\ IsVerifyCall
      /\ last.fault = "none"
      /\ RecordExists(last.deviceId, last.at)
      /\ TimestampInWindow
      /\ SignedWithStoredKeyOver(last.requestBody) )
    => last.outcome = Return(TRUE)

C1_Witness ==
    /\ IsVerifyCall
    /\ last.fault = "none"
    /\ RecordExists(last.deviceId, last.at)
    /\ TimestampInWindow
    /\ parseInt(last.timestamp).val # last.at
    /\ SignedWithStoredKeyOver(last.requestBody)
    /\ last.outcome = Return(TRUE)

\* a call that can only fail on the timestamp: device registered, signature
\* correct for the call's own inputs, no fault
IsWellSignedCall ==
    /\ IsVerifyCall
    /\ last.fault = "none"
    /\ RecordExists(last.deviceId, last.at)
    /\ SignedWithStoredKeyOver(last.requestBody)

TimestampIs(t) == parseInt(last.timestamp) = Num(t)

\* C2: a timestamp exactly validityWindow older than now is accepted and one
\* validityWindow + 1 older is rejected; the same for timestamps ahead of now.
C2_WindowBoundary ==
    IsWellSignedCall =>
        /\ TimestampIs(last.at - validityWindow) => last.outcome = Return(TRUE)
        /\ TimestampIs(last.at - validityWindow - 1) => last.outcome = Return(FALSE)
        /\ TimestampIs(last.at + validityWindow) => last.outcome = Return(TRUE)
        /\ TimestampIs(last.at + validityWindow + 1) => last.outcome = Return(FALSE)

C2_Witness ==
    /\ IsWellSignedCall
    /\ TimestampIs(last.at - validityWindow)
    /\ last.at >= validityWindow
    /\ last.outcome = Return(TRUE)

\* C6: verifySignature returns false for a device id with no record in the
\* store, never registered or expired, whatever else is supplied.
C6_AbsentDeviceFails ==
    (IsVerifyCall /\ ~RecordExists(last.deviceId, last.at))
    => last.outcome = Return(FALSE)

\* the record has expired and the caller signs with its key_seed
C6_Witness ==
    /\ IsVerifyCall
    /\ last.fault = "none"
    /\ CACHE[last.deviceId].present
    /\ last.at >= CACHE[last.deviceId].expires
    /\ TimestampInWindow
    /\ SignedWithStoredKeyOver(last.requestBody)
    /\ last.outcome = Return(FALSE)

\* C7: verifySignature never throws: with a failing store get, an undecodable
\* record or a failing crypto step it returns false, and it writes nothing.
C7_VerifyNeverThrows ==
    [][ (last = NoCall /\ last'.op = "verifySignature") =>
            /\ last'.outcome.kind = "return"
            /\ last'.fault # "none" => last'.outcome = Return(FALSE)
            /\ CACHE' = CACHE
            /\ RATE_LIMIT' = RATE_LIMIT ]_vars

\* the store get fails in a call that would otherwise verify
C7_Witness ==
    /\ IsVerifyCall
    /\ last.fault = "get"
    /\ RecordExists(last.deviceId, last.at)
    /\ TimestampInWindow
    /\ SignedWithStoredKeyOver(last.requestBody)
    /\ last.outcome = Return(FALSE)

\* C3: a signature computed over a body B does not verify a call whose body
\* differs from B, also when both are encodings of the same JSON value: the
\* digest is taken over the text handed to verifySignature.
C3_OtherBodyFails ==
    IsVerifyCall =>
        \A k \in CandidateKeys(CACHE), signedBody \in VerifyBodies :
            ( /\ signedBody # last.requestBody
              /\ last.signature =
                   clientSignature(k, last.timestamp, last.deviceId, signedBody) )
            => last.outcome = Return(FALSE)

\* signed over one encoding of a JSON value, sent with another encoding of it
C3_Witness ==
    /\ IsVerifyCall
    /\ last.fault = "none"
    /\ RecordExists(last.deviceId, last.at)
    /\ TimestampInWindow
    /\ \E signedBody \in VerifyBodies :
          /\ signedBody # last.requestBody
          /\ JSONparseBody(signedBody) = JSONparseBody(last.requestBody)
          /\ SignedWithStoredKeyOver(signedBody)
    /\ last.outcome = Return(FALSE)

\* C25: verifySignature returns false for every timestamp string that does
\* not parse as an integer (parseInt yields NaN), also when the signature is
\* the correct HMAC over that timestamp string, the device id and the body.
C25_UnparsableTimestampFails ==
    (IsVerifyCall /\ parseInt(last.timestamp).nan)
    => last.outcome = Return(FALSE)

\* C26: once the clock is more than the validity window past the timestamp
\* of a signed request, every verifySignature call with that device id,
\* timestamp, signature and body returns false; the clock never goes back, so
\* this holds of every later call.
C26_ReplayBounded ==
    ( /\ IsVerifyCall
      /\ ~parseInt(last.timestamp).nan
      /\ last.at - parseInt(last.timestamp).val > validityWindow )
    => last.outcome = Return(FALSE)

\* the request signed at the instant 0 under the key_seed registered then,
\* which verifies at 0, is sent again after the window and with the record
\* still stored
C26_Witness ==
    /\ IsWellSignedCall
    /\ TimestampIs(0)
    /\ JSONparse(CACHE[last.deviceId].value).registered_at = toISOString(0)
    /\ last.at > validityWindow
    /\ verifySignature(CACHE, last.deviceId, last.timestamp, last.signature,
                       last.requestBody, 0, "none") = Return(TRUE)
    /\ last.outcome = Return(FALSE)

(***************************************************************************)
(* checkRateLimit calls made one after another.                            *)
(***************************************************************************)
StoreFaults == {"none", "get", "put"}

\* the window stored for deviceId as a get at the instant clock reads it
storedWindow(rateLimit, deviceId, clock) ==
    IF rateLimit[deviceId].present /\ clock < rateLimit[deviceId].expires
    THEN rateLimit[deviceId].value.json
    ELSE <<>>

CheckRateLimitCall ==
    /\ last = NoCall
    /\ \E d \in DeviceIds, fault \in StoreFaults :
        LET run == checkRateLimit(RATE_LIMIT, d, now, fault)
        IN  /\ RATE_LIMIT' = run.rateLimit
            /\ admitted' = IF run.outcome.kind = "return"
                           THEN [admitted EXCEPT ![d] =
                                    Append(@, [at |-> now, overlapped |-> FALSE])]
                           ELSE admitted
            /\ last' = [op |-> "checkRateLimit", deviceId |-> d, at |-> now,
                        fault |-> fault, outcome |-> run.outcome,
                        admittedBefore |-> admitted[d],
                        windowBefore |-> storedWindow(RATE_LIMIT, d, now)]
            /\ UNCHANGED <<now, CACHE, procs, audit>>

NextRate == CheckRateLimitCall \/ Observed \/ Tick

SpecRate == Init /\ [][NextRate]_vars

\* the number of instants of a sequence that lie less than 60 seconds before clock
RecentCount(instants, clock) ==
    Cardinality({i \in 1..Len(instants) : clock - instants[i] < SecondsToTicks(60)})

Instants(calls) == [i \in 1..Len(calls) |-> calls[i].at]

IsRateCall == last.op = "checkRateLimit" /\ last.fault = "none"

\* C4: called one after another, a call succeeds while fewer than N calls were
\* admitted in the 60 seconds before it, it throws RateLimitError when N were,
\* and it succeeds again once the oldest recorded timestamp is more than 60
\* seconds old.
C4_CeilingPerSpan ==
    IsRateCall =>
        /\ RecentCount(Instants(last.admittedBefore), last.at) < RATE_LIMIT_PER_MINUTE
             => last.outcome = Return(TRUE)
        /\ RecentCount(Instants(last.admittedBefore), last.at) >= RATE_LIMIT_PER_MINUTE
             => last.outcome = Throw("RateLimitError")
        /\ ( /\ last.windowBefore # <<>>
             /\ last.at - last.windowBefore[1] > SecondsToTicks(60) )
             => last.outcome = Return(TRUE)

\* the window was full, its oldest timestamp has aged out, the call succeeds
C4_Witness ==
    /\ IsRateCall
    /\ Len(last.windowBefore) = RATE_LIMIT_PER_MINUTE
    /\ last.at - last.windowBefore[1] > SecondsToTicks(60)
    /\ Len(last.admittedBefore) >= RATE_LIMIT_PER_MINUTE
    /\ last.outcome = Return(TRUE)

\* C8: when the timestamps of the stored window newer than now - 60 s number
\* the ceiling or more, checkRateLimit throws RateLimitError and the store is
\* exactly what it was.
C8_RejectWritesNothing ==
    [][ ( /\ last = NoCall
          /\ last'.op = "checkRateLimit"
          /\ last'.fault # "get"
          /\ RecentCount(storedWindow(RATE_LIMIT, last'.deviceId, now), now)
               >= RATE_LIMIT_PER_MINUTE )
        => /\ last'.outcome = Throw("RateLimitError")
           /\ RATE_LIMIT' = RATE_LIMIT ]_vars

\* a rejected call, made later than the put that filled the window
C8_Witness ==
    /\ last.op = "checkRateLimit"
    /\ last.outcome = Throw("RateLimitError")
    /\ RecentCount(last.windowBefore, last.at) >= RATE_LIMIT_PER_MINUTE
    /\ last.at > last.windowBefore[Len(last.windowBefore)]

\* the timestamps of the window the call read that are newer than the
\* instant of the call less 60 seconds, in their order
CountedBefore ==
    SelectSeq(last.windowBefore,
              LAMBDA t : t > last.at - SecondsToTicks(60))

\* C28: a recorded timestamp t counts toward the ceiling in a checkRateLimit
\* call at time now if and only if t > now - 60 s: the call succeeds exactly
\* when fewer than N such timestamps are stored, and the window it writes
\* back is those timestamps followed by now; an entry exactly 60 seconds old
\* does not count and is not written back.
C28_CountsIffNewerThanWindowStart ==
    IsRateCall =>
        /\ last.outcome = Return(TRUE) <=> Len(CountedBefore) < RATE_LIMIT_PER_MINUTE
        /\ last.outcome = Return(TRUE) =>
              storedWindow(RATE_LIMIT, last.deviceId, now)
                  = Append(CountedBefore, last.at)
        /\ last.outcome # Return(TRUE) =>
              storedWindow(RATE_LIMIT, last.deviceId, now) = last.windowBefore

\* a full window whose oldest entry is exactly 60 seconds old: the call
\* succeeds and the entry is gone from the window stored
C28_Witness ==
    /\ IsRateCall
    /\ Len(last.windowBefore) = RATE_LIMIT_PER_MINUTE
    /\ last.windowBefore[1] = last.at - SecondsToTicks(60)
    /\ last.outcome = Return(TRUE)
    /\ \A i \in 1..Len(storedWindow(RATE_LIMIT, last.deviceId, now)) :
           storedWindow(RATE_LIMIT, last.deviceId, now)[i] # last.windowBefore[1]

(***************************************************************************)
(* checkRateLimit calls that interleave at the store's get and put.        *)
(***************************************************************************)
InFlight(p) == procs[p].op # "idle"

OthersInFlight(p, deviceId) ==
    {q \in Procs \ {p} : InFlight(q) /\ procs[q].deviceId = deviceId}

\* the interleaved calls are calls of one device
ConcurrentDevices == {"d1"}

\* line 124: the call reads Date.now() and suspends at RATE_LIMIT.get
RateBegin(p) ==
    /\ ~InFlight(p)
    /\ \E d \in ConcurrentDevices :
        procs' = [q \in Procs |->
                    IF q = p
                    THEN [op |-> "checkRateLimit", pc |-> "get", deviceId |-> d,
                          now |-> now, write |-> <<>>,
                          overlapped |-> OthersInFlight(p, d) # {}]
                    ELSE IF q \in OthersInFlight(p, d)
                    THEN [procs[q] EXCEPT !.overlapped = TRUE]
                    ELSE procs[q]]
    /\ UNCHANGED <<now, CACHE, RATE_LIMIT, last, admitted, audit>>

\* lines 128-141: the get returns; filter, check, push; the call throws or
\* suspends at RATE_LIMIT.put
RateGet(p) ==
    /\ InFlight(p)
    /\ procs[p].op = "checkRateLimit"
    /\ procs[p].pc = "get"
    /\ LET decided == rateLimitDecide(kvGet(RATE_LIMIT, procs[p].deviceId, now),
                                      procs[p].now)
       IN  procs' = [procs EXCEPT ![p] =
                        IF decided.outcome.kind = "throw" THEN Idle
                        ELSE [@ EXCEPT !.pc = "put", !.write = decided.write]]
    /\ UNCHANGED <<now, CACHE, RATE_LIMIT, last, admitted, audit>>

\* lines 144-146: the put completes and the call returns
RatePut(p) ==
    /\ InFlight(p)
    /\ procs[p].op = "checkRateLimit"
    /\ procs[p].pc = "put"
    /\ RATE_LIMIT' = kvPut(RATE_LIMIT, procs[p].deviceId,
                           JSONstringify(procs[p].write), RateTtl, now)
    /\ admitted' = [admitted EXCEPT ![procs[p].deviceId] =
                       Append(@, [at |-> procs[p].now,
                                  overlapped |-> procs[p].overlapped])]
    /\ procs' = [procs EXCEPT ![p] = Idle]
    /\ UNCHANGED <<now, CACHE, last, audit>>

NextRateConc ==
    \/ \E p \in Procs : RateBegin(p) \/ RateGet(p) \/ RatePut(p)
    \/ Tick

SpecRateConc == Init /\ [][NextRateConc]_vars

\* the admitted calls of deviceId whose instant lies in the 60 seconds from start
AdmittedInSpan(deviceId, start) ==
    {i \in 1..Len(admitted[deviceId]) :
        /\ admitted[deviceId][i].at >= start
        /\ admitted[deviceId][i].at - start < SecondsToTicks(60)}

OverlappedInSpan(deviceId, start) ==
    {i \in AdmittedInSpan(deviceId, start) : admitted[deviceId][i].overlapped}

RateWindow(d) == JSONparse(RATE_LIMIT[d].value)

\* C27: the rate window stored for a device is always a non-decreasing
\* sequence of timestamps, after any interleaving of checkRateLimit calls
\* of the device, each of which reads now before it reads the store.
C27_WindowOrdered ==
    \A d \in DeviceIds : RATE_LIMIT[d].present =>
        \A i \in 1..(Len(RateWindow(d)) - 1) :
            RateWindow(d)[i] <= RateWindow(d)[i + 1]

\* the instant read by the call that put the window stored for d: the call
\* admitted last
WriterNow(d) == admitted[d][Len(admitted[d])].at

\* C30: in every reachable state, under any interleaving of checkRateLimit
\* calls, the window stored for a device holds at most N timestamps (and at
\* least the one of the call that wrote it), and every timestamp in it is
\* newer than now - 60 s for the now of the call that wrote it.
C30_WindowBounded ==
    \A d \in DeviceIds : RATE_LIMIT[d].present =>
        /\ RATE_LIMIT_PER_MINUTE >= 1
        /\ Len(RateWindow(d)) >= 1
        /\ Len(RateWindow(d)) <= RATE_LIMIT_PER_MINUTE
        /\ RateWindow(d)[Len(RateWindow(d))] = WriterNow(d)
        /\ \A i \in 1..Len(RateWindow(d)) :
               RateWindow(d)[i] > WriterNow(d) - SecondsToTicks(60)

\* a full window put by a call that ran together with another one and
\* completed after the clock had moved on from the instant it read
C30_Witness ==
    \E d \in DeviceIds :
        /\ RATE_LIMIT[d].present
        /\ Len(RateWindow(d)) = RATE_LIMIT_PER_MINUTE
        /\ admitted[d][Len(admitted[d])].overlapped
        /\ now > WriterNow(d)
        /\ Len(admitted[d]) > RATE_LIMIT_PER_MINUTE

(***************************************************************************)
(* The device registry: registerDevice and updateDeviceLastSeen calls made *)
(* one after another.                                                      *)
(***************************************************************************)
RegistrationBodies ==
    {registrationBody(d, info) :
        d \in DeviceIds, info \in {InfoA, InfoB, InfoVendor, InfoWeb}}
        \cup {registrationBody("", InfoA), NotJson}

RegistryRegister == RegisterDeviceCall(RegistrationBodies, {0, 1}, {"none", "put"})

UpdateDeviceLastSeenCall ==
    /\ last = NoCall
    /\ \E d \in DeviceIds :
        LET before == getDeviceInfo(CACHE, d, now)
        IN  /\ IF IsNull(before) THEN TRUE ELSE before.request_count < MaxCount
            /\ CACHE' = updateDeviceLastSeen(CACHE, d, now)
            /\ last' = [op |-> "updateDeviceLastSeen", deviceId |-> d, at |-> now,
                        before |-> before]
            /\ UNCHANGED <<now, RATE_LIMIT, admitted, procs, audit>>

NextRegistry ==
    RegistryRegister \/ UpdateDeviceLastSeenCall \/ Observed \/ Tick \/ MonthPasses

SpecRegistry == Init /\ [][NextRegistry]_vars

IsRegistered == last.op = "registerDevice" /\ last.response.status = 200

\* the record a get of the registered device id returns after the call
RegisteredRecord == getDeviceInfo(CACHE, last.body.value.device_id, now)

\* what C10 states of the record apart from device_info
RegisteredRecordMatches ==
    /\ ~IsNull(RegisteredRecord)
    /\ RegisteredRecord.device_id = last.body.value.device_id
    /\ RegisteredRecord.request_count = 0
    /\ RegisteredRecord.key_seed # ""
    /\ RegisteredRecord.key_seed = last.response.data.key_seed

\* C10 as stated: after registerDevice(d, info) succeeds, getDeviceInfo(d)
\* returns a record with device_id = d, device_info equal to info,
\* request_count = 0 and the non-empty key_seed of the response.
C10_Original ==
    IsRegistered =>
        /\ RegisteredRecordMatches
        /\ RegisteredRecord.device_info = last.body.value.device_info

\* C10 (amended): as above, with device_info equal to the model, os_version,
\* app_version and platform of info; a key of info that the schema does not
\* declare is not stored.
C10_RegisterThenGet ==
    IsRegistered =>
        /\ RegisteredRecordMatches
        /\ RegisteredRecord.device_info =
             [k \in SchemaKeys |-> last.body.value.device_info[k]]

\* a registration whose info carries a key outside the schema
C10_Witness ==
    /\ IsRegistered
    /\ RegisteredRecordMatches
    /\ last.body.value.device_info = InfoVendor
    /\ RegisteredRecord.device_info = InfoA

(***************************************************************************)
(* APIHandlers.parseExpense.  A request is a process that suspends at the  *)
(* store's get and put and at the call of the parsing collaborator; other  *)
(* requests, registrations and the clock move in between.  log is the list *)
(* of the steps the request has completed, each with how it ended.         *)
(***************************************************************************)
Error(name, message) == [name |-> name, message |-> message]

\* variant: the schema accepts every text
expenseParseSchema_acceptAll(body) == Return(body)

\* expenseParseSchema.parse(body)
expenseParseSchema(body) ==
    IF lengthBetween(body.text, 1, 5000) THEN Return(body)
    ELSE Throw(Error("ZodError", "Invalid request data"))

\* the handler up to the call of checkRateLimit: headers, raw text, JSON.parse,
\* schema.  An absent header is the empty value.
parseExpenseValidate(deviceId, timestamp, signature, rawRequestBody) ==
    IF deviceId = "" \/ timestamp = <<>> \/ signature = ""
    THEN Throw(Error("AuthenticationError", "Missing required headers"))
    ELSE LET body == JSONparseBody(rawRequestBody)
         IN  IF ~body.ok
             THEN Throw(Error("ValidationError", "Invalid JSON in request body"))
             ELSE expenseParseSchema(body.value)

\* variant: an error that is neither a ZodError nor an AuthenticationError
\* is thrown again
parseExpenseCatch_rethrow(error) ==
    IF error.name = "ZodError" THEN errorResponse(400, "Invalid request data")
    ELSE IF error.name = "AuthenticationError" THEN errorResponse(401, error.message)
    ELSE [escaped |-> error]

\* the catch block of parseExpense
parseExpenseCatch(error) ==
    IF error.name = "ZodError" THEN errorResponse(400, "Invalid request data")
    ELSE IF error.name = "AuthenticationError" THEN errorResponse(401, error.message)
    ELSE errorResponse(500, "Parsing failed")

\* variant: the result of verifySignature is not looked at
signatureGate_ignored(isValidSignature) == Return(TRUE)

\* if (!isValidSignature) throw new AuthenticationError(...)
signatureGate(isValidSignature) ==
    IF ~isValidSignature
    THEN Throw(Error("AuthenticationError", "Invalid request signature"))
    ELSE Return(TRUE)

parseSuccess(parseResult) == [status |-> 200, success |-> TRUE, data |-> parseResult]

ParseBodies == {renderExpense("tea", ""), renderExpense("", ""), "tea"}

\* the requests and registrations that interleave are those of one device
ParseDevices == {"d1"}

\* the headers a client sends at the instant clock: signed with the key_seed
\* stored for the device or with a guess, or with one header left out
HeaderInputsFor(devices, cache, clock, rawBody) ==
    LET ts == DecimalChars(clock)
        keys(d) == {"guess"} \cup
                   (IF cache[d].present THEN {JSONparse(cache[d].value).key_seed}
                    ELSE {})
    IN  UNION {{[deviceId |-> d, timestamp |-> ts,
                 signature |-> clientSignature(k, ts, d, rawBody)] : k \in keys(d)} :
                    d \in devices}
        \cup {[deviceId |-> "", timestamp |-> ts, signature |-> "AAAA"],
              [deviceId |-> "d1", timestamp |-> <<>>, signature |-> "AAAA"],
              [deviceId |-> "d1", timestamp |-> ts, signature |-> ""]}

HeaderInputs(cache, clock, rawBody) ==
    HeaderInputsFor(ParseDevices, cache, clock, rawBody)

Logged(p, step, result) == Append(procs[p].log, [step |-> step, result |-> result])

\* the request ends: the catch block or the success path has built response
Done(p, log, response) ==
    [op |-> "parseExpense", pc |-> "done", deviceId |-> procs[p].deviceId,
     log |-> log, response |-> response]

At(p, pc) == procs[p].op = "parseExpense" /\ procs[p].pc = pc

StepFaults == {"none", "fail"}
StoreError == Error("KVError", "store failure")

SetMax(S) == CHOOSE m \in S : \A x \in S : x <= m

\* a call of d that holds a touched record it has not put yet
HoldsTouch(q, d) ==
    /\ procs[q].op \in {"parseExpense", "updateDeviceLastSeen"}
    /\ procs[q].deviceId = d
    /\ procs[q].pc \in {"touch_put", "put"}

\* a call of d that has not read the record it will touch yet
BeforeTouch(q, d) ==
    /\ procs[q].op \in {"parseExpense", "updateDeviceLastSeen"}
    /\ procs[q].deviceId = d
    /\ procs[q].pc \in {"rl_get", "rl_put", "vs_get", "touch_get", "get"}

\* the highest request_count the calls under way can still write: the
\* highest count stored, held or verified, and one more for each call that
\* has not read the record yet
TouchesAhead(d) ==
    SetMax({audit[d].verified}
           \cup (IF IsNull(getDeviceInfo(CACHE, d, now)) THEN {}
                 ELSE {getDeviceInfo(CACHE, d, now).request_count})
           \cup {procs[q].write.request_count : q \in {r \in Procs : HoldsTouch(r, d)}})
    + Cardinality({q \in Procs : BeforeTouch(q, d)})

\* lines 341-364: the request arrives; it is rejected before any store access
\* or reads Date.now() in checkRateLimit and suspends at RATE_LIMIT.get
ParseBeginWith(p, bodies) ==
    /\ ~InFlight(p)
    /\ \E raw \in bodies :
        \E h \in HeaderInputs(CACHE, now, raw) :
            LET validated == parseExpenseValidate(h.deviceId, h.timestamp,
                                                  h.signature, raw)
            IN  /\ h.deviceId \in DeviceIds => TouchesAhead(h.deviceId) < MaxCount
                /\ procs' = [procs EXCEPT ![p] =
                     IF validated.kind = "throw"
                     THEN [op |-> "parseExpense", pc |-> "done",
                           deviceId |-> h.deviceId, log |-> <<>>,
                           response |-> parseExpenseCatch(validated.error)]
                     ELSE [op |-> "parseExpense", pc |-> "rl_get",
                           deviceId |-> h.deviceId, timestamp |-> h.timestamp,
                           signature |-> h.signature, rawRequestBody |-> raw,
                           validatedData |-> validated.value, now |-> now,
                           write |-> <<>>, log |-> <<>>]]
    /\ UNCHANGED <<now, CACHE, RATE_LIMIT, last, admitted, audit>>

ParseBegin(p) == ParseBeginWith(p, ParseBodies)

\* security.ts lines 128-141: the get returns; filter, check, push; the call
\* throws or suspends at RATE_LIMIT.put
ParseRateGetWith(p, faults) ==
    /\ At(p, "rl_get")
    /\ \E fault \in faults :
        LET decided == rateLimitDecide(kvGet(RATE_LIMIT, procs[p].deviceId, now),
                                       procs[p].now)
            error == IF fault = "fail" THEN StoreError
                     ELSE Error("RateLimitError", "Rate limit exceeded")
        IN  procs' = [procs EXCEPT ![p] =
                IF fault = "fail" \/ decided.outcome.kind = "throw"
                THEN Done(p, Logged(p, "checkRateLimit", "threw"),
                          parseExpenseCatch(error))
                ELSE [@ EXCEPT !.pc = "rl_put", !.write = decided.write]]
    /\ UNCHANGED <<now, CACHE, RATE_LIMIT, last, admitted, audit>>

ParseRateGet(p) == ParseRateGetWith(p, StepFaults)

\* security.ts lines 144-146: the put completes and checkRateLimit returns;
\* verifySignature starts and suspends at CACHE.get
ParseRatePutWith(p, faults) ==
    /\ At(p, "rl_put")
    /\ \E fault \in faults :
        IF fault = "fail"
        THEN /\ procs' = [procs EXCEPT ![p] =
                    Done(p, Logged(p, "checkRateLimit", "threw"),
                         parseExpenseCatch(StoreError))]
             /\ UNCHANGED RATE_LIMIT
        ELSE /\ RATE_LIMIT' = kvPut(RATE_LIMIT, procs[p].deviceId,
                                    JSONstringify(procs[p].write), RateTtl, now)
             /\ procs' = [procs EXCEPT ![p] =
                    [@ EXCEPT !.pc = "vs_get",
                              !.log = Logged(p, "checkRateLimit", "returned")]]
    /\ UNCHANGED <<now, CACHE, last, admitted, audit>>

ParseRatePut(p) == ParseRatePutWith(p, StepFaults)

\* security.ts lines 61-85 and handler lines 366-375: the get returns and
\* verifySignature runs to its result; the handler throws on false, or
\* updateDeviceLastSeen starts and suspends at CACHE.get
ParseVerifyWith(p, faults) ==
    /\ At(p, "vs_get")
    /\ \E fault \in faults :
        LET isValidSignature ==
                verifySignature(CACHE, procs[p].deviceId, procs[p].timestamp,
                                procs[p].signature, procs[p].rawRequestBody,
                                now, fault).value
            gate == signatureGate(isValidSignature)
            log == Logged(p, "verifySignature",
                          IF isValidSignature THEN "true" ELSE "false")
        IN  /\ procs' = [procs EXCEPT ![p] =
                    IF gate.kind = "throw"
                    THEN Done(p, log, parseExpenseCatch(gate.error))
                    ELSE [@ EXCEPT !.pc = "touch_get", !.log = log]]
            /\ audit' = IF isValidSignature
                        THEN [audit EXCEPT ![procs[p].deviceId].verified = @ + 1]
                        ELSE audit
    /\ UNCHANGED <<now, CACHE, RATE_LIMIT, last, admitted>>

ParseVerify(p) == ParseVerifyWith(p, Faults)

\* security.ts lines 172-176: the get returns; with no record
\* updateDeviceLastSeen returns, with one it suspends at CACHE.put
ParseTouchGetWith(p, faults) ==
    /\ At(p, "touch_get")
    /\ \E fault \in faults :
        LET deviceInfo == getDeviceInfo(CACHE, procs[p].deviceId, now)
        IN  procs' = [procs EXCEPT ![p] =
                IF fault = "fail"
                THEN Done(p, Logged(p, "updateDeviceLastSeen", "threw"),
                          parseExpenseCatch(StoreError))
                ELSE IF IsNull(deviceInfo)
                THEN [@ EXCEPT !.pc = "parse",
                               !.log = Logged(p, "updateDeviceLastSeen", "absent")]
                ELSE [@ EXCEPT !.pc = "touch_put",
                               !.write = touchRecord(deviceInfo, now)]]
    /\ UNCHANGED <<now, CACHE, RATE_LIMIT, last, admitted, audit>>

ParseTouchGet(p) == ParseTouchGetWith(p, StepFaults)

\* security.ts line 176 (storeDeviceInfo): the put completes and
\* updateDeviceLastSeen returns; the collaborator is called
ParseTouchPutWith(p, faults) ==
    /\ At(p, "touch_put")
    /\ \E fault \in faults :
        IF fault = "fail"
        THEN /\ procs' = [procs EXCEPT ![p] =
                    Done(p, Logged(p, "updateDeviceLastSeen", "threw"),
                         parseExpenseCatch(StoreError))]
             /\ UNCHANGED CACHE
        ELSE /\ CACHE' = storeDeviceInfo(CACHE, procs[p].write, now)
             /\ procs' = [procs EXCEPT ![p] =
                    [@ EXCEPT !.pc = "parse",
                              !.log = Logged(p, "updateDeviceLastSeen", "touched")]]
    /\ UNCHANGED <<now, RATE_LIMIT, last, admitted, audit>>

ParseTouchPut(p) == ParseTouchPutWith(p, StepFaults)

\* handler lines 381-387: openai.parseExpenseText returns a result or throws
ParseCollaborator(p) ==
    /\ At(p, "parse")
    /\ \E ok \in BOOLEAN :
        procs' = [procs EXCEPT ![p] =
            IF ok
            THEN Done(p, Logged(p, "parse", "returned"),
                      parseSuccess([text |-> procs[p].validatedData.text]))
            ELSE Done(p, Logged(p, "parse", "threw"),
                      parseExpenseCatch(Error("APIError", "upstream failure")))]
    /\ UNCHANGED <<now, CACHE, RATE_LIMIT, last, admitted, audit>>

\* return c.json(...): the response leaves the handler
ParseRespond(p) ==
    /\ At(p, "done")
    /\ procs' = [procs EXCEPT ![p] = Idle]
    /\ UNCHANGED <<now, CACHE, RATE_LIMIT, last, admitted, audit>>

ParseRegister ==
    RegisterDeviceCall({registrationBody(d, InfoA) : d \in ParseDevices}, {0}, {"none"})

\* one request at a time; registrations and the clock move between its steps
ParseProcs == {1}

NextParse ==
    \/ \E p \in ParseProcs :
        \/ ParseBegin(p) \/ ParseRateGet(p) \/ ParseRatePut(p) \/ ParseVerify(p)
        \/ ParseTouchGet(p) \/ ParseTouchPut(p) \/ ParseCollaborator(p)
        \/ ParseRespond(p)
    \/ ParseRegister
    \/ Observed
    \/ Tick
    \/ MonthPasses

SpecParse == Init /\ [][NextParse]_vars

Steps == <<"checkRateLimit", "verifySignature", "updateDeviceLastSeen", "parse">>

IsParseRequest(p) == procs[p].op = "parseExpense"

\* the steps a request has completed are the first ones of Steps, in order
InOrder(log) ==
    /\ Len(log) <= Len(Steps)
    /\ \A i \in 1..Len(log) : log[i].step = Steps[i]

\* a step that threw or, for verifySignature, returned false, is the last
\* step of a request that has ended
FailureEnds(p) ==
    \A i \in 1..Len(procs[p].log) :
        procs[p].log[i].result \in {"threw", "false"} =>
            i = Len(procs[p].log) /\ procs[p].pc = "done"

\* the collaborator has been called for the request
CollaboratorCalled(p) ==
    procs[p].pc = "parse" \/ (Len(procs[p].log) = 4 /\ procs[p].log[4].step = "parse")

\* C5 as stated: the steps run in the order checkRateLimit, verifySignature,
\* updateDeviceLastSeen, parse; the collaborator is called only for a request
\* whose rate-limit check succeeded, whose signature then verified as true
\* and whose device record was then touched; a failure at any step ends the
\* request without running any later step.
C5_Original ==
    \A p \in Procs : IsParseRequest(p) =>
        /\ InOrder(procs[p].log)
        /\ FailureEnds(p)
        /\ CollaboratorCalled(p) =>
            /\ Len(procs[p].log) >= 3
            /\ procs[p].log[1].result = "returned"
            /\ procs[p].log[2].result = "true"
            /\ procs[p].log[3].result = "touched"

\* C5 (amended): as above, with "whose updateDeviceLastSeen call then
\* returned" in place of "whose device record was then touched": the call
\* touches the record it finds and returns without a write when it finds
\* none.
C5_StepOrder ==
    \A p \in Procs : IsParseRequest(p) =>
        /\ InOrder(procs[p].log)
        /\ FailureEnds(p)
        /\ CollaboratorCalled(p) =>
            /\ Len(procs[p].log) >= 3
            /\ procs[p].log[1].result = "returned"
            /\ procs[p].log[2].result = "true"
            /\ procs[p].log[3].result \in {"touched", "absent"}

\* a request that reached the collaborator, after a touch of the record of
\* a device that was registered again since the request was signed
C5_Witness ==
    \E p \in Procs :
        /\ IsParseRequest(p)
        /\ Len(procs[p].log) = 4
        /\ procs[p].log[3].result = "touched"
        /\ procs[p].response.status = 200
        /\ procs[p].deviceId \in DeviceIds
        /\ ~IsNull(getDeviceInfo(CACHE, procs[p].deviceId, now))
        /\ getDeviceInfo(CACHE, procs[p].deviceId, now).request_count = 0

(***************************************************************************)
(* Registration over an existing record (SpecRegistry).                    *)
(***************************************************************************)
\* the call that has just completed is a registerDevice call with a body the
\* schema accepts and a store that takes the put, made while a record of the
\* device id was stored
IsReRegistration ==
    /\ last.op = "registerDevice"
    /\ last.fault = "none"
    /\ last.body.json
    /\ deviceRegistrationSchema(last.body.value).success
    /\ ~IsNull(last.before)

\* C11 as stated: registering an id that is already registered succeeds
\* without a conflict error, keeps device_id and stores a key_seed different
\* from the one stored before, for every pair of successive registrations.
C11_Original ==
    IsReRegistration =>
        /\ last.response.status = 200
        /\ RegisteredRecord.device_id = last.before.device_id
        /\ RegisteredRecord.key_seed # last.before.key_seed

\* C11 (amended): it succeeds and keeps device_id; the key_seed stored
\* differs from the one stored before when the stored record was registered
\* at another instant of the millisecond clock, and is the same key_seed
\* when both registrations read the same instant.
C11_ReRegistration ==
    IsReRegistration =>
        /\ last.response.status = 200
        /\ RegisteredRecord.device_id = last.before.device_id
        /\ (RegisteredRecord.key_seed # last.before.key_seed)
             <=> (last.before.registered_at # toISOString(now))

\* a second registration of an id has replaced the key_seed of a record that
\* was touched in between
C11_Witness ==
    /\ IsReRegistration
    /\ last.before.request_count > 0
    /\ RegisteredRecord.key_seed # last.before.key_seed
    /\ RegisteredRecord.request_count = 0

(***************************************************************************)
(* updateDeviceLastSeen, one call after another (SpecRegistry).            *)
(***************************************************************************)
IsTouch == last.op = "updateDeviceLastSeen"

TouchedRecord == getDeviceInfo(CACHE, last.deviceId, now)

C14_AbsentTouchWritesNothing ==
    [][(last'.op = "updateDeviceLastSeen" /\ last = NoCall /\ IsNull(last'.before)) =>
          /\ CACHE' = CACHE
          /\ IsNull(getDeviceInfo(CACHE', last'.deviceId, now'))]_vars

\* a touch of a device whose record has expired, next to a stored record
C14_Witness ==
    /\ IsTouch
    /\ IsNull(last.before)
    /\ CACHE[last.deviceId].present
    /\ \E d \in DeviceIds : RecordExists(d, now)

(***************************************************************************)
(* registerDevice and updateDeviceLastSeen calls of one device, each split *)
(* at its awaits, interleaved (SpecRegistryConc).                          *)
(***************************************************************************)
\* handler lines 289-292: the body is read and validated; generateKeySeed
\* reads Date.now() and suspends at crypto.subtle
RegBegin(p) ==
    /\ ~InFlight(p)
    /\ \E d \in ConcurrentDevices :
        LET validated == deviceRegistrationSchema(registrationBody(d, InfoA).value)
        IN  procs' = [procs EXCEPT ![p] =
                        [op |-> "registerDevice", pc |-> "derive", deviceId |-> d,
                         validatedData |-> validated.data,
                         keySeed |-> generateKeySeed(d, now),
                         write |-> <<>>]]
    /\ UNCHANGED <<now, CACHE, RATE_LIMIT, last, admitted, audit>>

\* handler lines 293-306: the key is derived; the token is generated, the
\* record is built with new Date() and the call suspends at CACHE.put
RegBuild(p) ==
    /\ procs[p].op = "registerDevice"
    /\ procs[p].pc = "derive"
    /\ procs' = [procs EXCEPT ![p] =
                    [@ EXCEPT !.pc = "put",
                              !.write = [device_id |-> procs[p].validatedData.device_id,
                                         key_seed |-> procs[p].keySeed,
                                         registered_at |-> toISOString(now),
                                         last_seen |-> toISOString(now),
                                         request_count |-> 0,
                                         device_info |-> procs[p].validatedData.device_info]]]
    /\ UNCHANGED <<now, CACHE, RATE_LIMIT, last, admitted, audit>>

\* handler lines 306-317: the put completes and the response, with key_seed,
\* is returned
RegPut(p) ==
    /\ procs[p].op = "registerDevice"
    /\ procs[p].pc = "put"
    /\ CACHE' = storeDeviceInfo(CACHE, procs[p].write, now)
    /\ audit' = [audit EXCEPT ![procs[p].deviceId] =
                    [returned |-> procs[p].keySeed, verified |-> 0]]
    /\ procs' = [procs EXCEPT ![p] = Idle]
    /\ UNCHANGED <<now, RATE_LIMIT, last, admitted>>

\* security.ts line 172: updateDeviceLastSeen is called and suspends at
\* CACHE.get
TouchBegin(p) ==
    /\ ~InFlight(p)
    /\ \E d \in ConcurrentDevices :
        /\ TouchesAhead(d) < MaxCount
        /\ procs' = [procs EXCEPT ![p] =
                        [op |-> "updateDeviceLastSeen", pc |-> "get", deviceId |-> d,
                         write |-> <<>>]]
    /\ UNCHANGED <<now, CACHE, RATE_LIMIT, last, admitted, audit>>

\* security.ts lines 172-176: the get returns; with no record the call
\* returns, with one it sets the two fields and suspends at CACHE.put
TouchGet(p) ==
    /\ procs[p].op = "updateDeviceLastSeen"
    /\ procs[p].pc = "get"
    /\ LET deviceInfo == getDeviceInfo(CACHE, procs[p].deviceId, now)
       IN  procs' = [procs EXCEPT ![p] =
                        IF IsNull(deviceInfo) THEN Idle
                        ELSE [@ EXCEPT !.pc = "put",
                                       !.write = touchRecord(deviceInfo, now)]]
    /\ UNCHANGED <<now, CACHE, RATE_LIMIT, last, admitted, audit>>

\* security.ts lines 176-177: the put completes and the call returns
TouchPut(p) ==
    /\ procs[p].op = "updateDeviceLastSeen"
    /\ procs[p].pc = "put"
    /\ CACHE' = storeDeviceInfo(CACHE, procs[p].write, now)
    /\ procs' = [procs EXCEPT ![p] = Idle]
    /\ UNCHANGED <<now, RATE_LIMIT, last, admitted, audit>>

NextRegistryConc ==
    \/ \E p \in Procs :
        \/ RegBegin(p) \/ RegBuild(p) \/ RegPut(p)
        \/ TouchBegin(p) \/ TouchGet(p) \/ TouchPut(p)
    \/ Tick

SpecRegistryConc == Init /\ [][NextRegistryConc]_vars

RegistrationInProgress(d) ==
    \E p \in Procs : procs[p].op = "registerDevice" /\ procs[p].deviceId = d

\* C12: whenever no registration for device d is in progress, the key_seed in
\* d's stored record is the key_seed returned by the most recently completed
\* registerDevice call for d, also when registrations of d interleave with
\* each other and with updateDeviceLastSeen calls for d.
C12_StoredKeyIsLastReturned ==
    \A d \in DeviceIds :
        (~RegistrationInProgress(d) /\ audit[d].returned # "" /\ RecordExists(d, now))
            => StoredKeySeed(d) = audit[d].returned

(***************************************************************************)
(* parseExpense requests of one device, interleaved, with a store that     *)
(* does not fail (SpecParseConc).                                          *)
(***************************************************************************)
NoFault == {"none"}

\* a registration made while no request is under way
QuietRegister ==
    /\ \A p \in Procs : procs[p] = Idle
    /\ ParseRegister

NextParseConc ==
    \/ \E p \in Procs :
        \/ ParseBeginWith(p, {renderExpense("tea", "")})
        \/ ParseRateGetWith(p, NoFault) \/ ParseRatePutWith(p, NoFault)
        \/ ParseVerifyWith(p, NoFault)
        \/ ParseTouchGetWith(p, NoFault) \/ ParseTouchPutWith(p, NoFault)
        \/ ParseCollaborator(p)
        \/ ParseRespond(p)
    \/ QuietRegister
    \/ Observed
    \/ Tick

SpecParseConc == Init /\ [][NextParseConc]_vars

\* a parseExpense request of d has started and not built its response yet
RequestUnderWay(d) ==
    \E p \in Procs :
        /\ procs[p].op = "parseExpense"
        /\ procs[p].deviceId = d
        /\ procs[p].pc # "done"

\* C15: the request_count of a device's stored record equals the number of
\* parseExpense requests of the device that passed signature verification
\* since the device was registered, one increment per such request, for any
\* interleaving of requests (read at the instants no request of the device
\* is under way; a count that had decreased would no longer equal it).
C15_CountEqualsVerified ==
    \A d \in DeviceIds :
        (~RequestUnderWay(d) /\ RecordExists(d, now))
            => JSONparse(CACHE[d].value).request_count = audit[d].verified

(***************************************************************************)
(* device_info of a stored record (SpecRegistry).                          *)
(***************************************************************************)
\* a record of d is stored before and after the step
RecordStays(d) == RecordExists(d, now) /\ RecordExists(d, now')

\* the step is a registerDevice call that stored a record of d
RegistersAgain(d) ==
    /\ last'.op = "registerDevice"
    /\ last'.response.status = 200
    /\ last'.body.value.device_id = d

\* C16 as stated: once a device is registered, the device_info of its stored
\* record never changes under any later sequence of register, touch and
\* authenticated calls for that device.
C16_Original ==
    [][\A d \in DeviceIds : RecordStays(d) =>
         JSONparse(CACHE[d].value)'.device_info
             = JSONparse(CACHE[d].value).device_info]_vars

\* C16 (amended): the device_info of a stored record never changes under
\* touch and authenticated calls; a later registration of the device id
\* replaces it with the schema fields of the info of that registration.
C16_InfoChangesOnlyOnRegister ==
    [][\A d \in DeviceIds : RecordStays(d) =>
         IF RegistersAgain(d)
         THEN JSONparse(CACHE[d].value)'.device_info
                  = [k \in SchemaKeys |-> last'.body.value.device_info[k]]
         ELSE JSONparse(CACHE[d].value)'.device_info
                  = JSONparse(CACHE[d].value).device_info]_vars

\* a second touch of a record, which leaves device_info as it was registered
C16_Witness ==
    /\ IsTouch
    /\ ~IsNull(last.before)
    /\ last.before.device_info = InfoB
    /\ TouchedRecord.device_info = InfoB
    /\ TouchedRecord.request_count = 2

(***************************************************************************)
(* The lifetime of a device record (SpecRegistry).                         *)
(***************************************************************************)
RegisteredAt(d) == JSONparse(CACHE[d].value).registered_at.iso
LastSeen(d) == JSONparse(CACHE[d].value).last_seen.iso

\* C17 as stated: a device record becomes absent 30 days after the
\* registration that created it, which is the expires_at reported in the
\* registration response; updateDeviceLastSeen re-persists the record's
\* value without extending that lifetime.
C17_Original ==
    \A d \in DeviceIds :
        /\ CACHE[d].present =>
              (RecordExists(d, now) <=> now < RegisteredAt(d) + DeviceTtl)
        /\ (IsRegistered /\ last.body.value.device_id = d) =>
              last.response.data.expires_at = toISOString(RegisteredAt(d) + DeviceTtl)

\* C17 (amended): a device record becomes absent 30 days after the last put
\* of it, by registerDevice or by updateDeviceLastSeen: each put carries the
\* 30-day time-to-live.  The expires_at of the registration response is 30
\* days after the registration, and a record touched since outlives it.
C17_LifetimeFromLastPut ==
    \A d \in DeviceIds :
        /\ CACHE[d].present =>
              /\ CACHE[d].expires = LastSeen(d) + DeviceTtl
              /\ RecordExists(d, now) <=> now < LastSeen(d) + DeviceTtl
        /\ (IsRegistered /\ last.body.value.device_id = d) =>
              last.response.data.expires_at = toISOString(RegisteredAt(d) + DeviceTtl)

\* a record, touched in its last instant, that is stored at the expires_at
\* its registration reported
C17_Witness ==
    \E d \in DeviceIds :
        /\ RecordExists(d, now)
        /\ now >= RegisteredAt(d) + DeviceTtl
        /\ JSONparse(CACHE[d].value).request_count > 0

(***************************************************************************)
(* The token of a registration response (SpecRegistry).                    *)
(***************************************************************************)
\* the tokens of d whose expires_at is issued_at + 30 days, for the values
\* Date.now() can have had during the call that has just completed
ExactTokens(d) ==
    {generateDeviceToken(d, issued, issued) : issued \in {last.at, last.at + 1}}

\* C19: every token produced by generateDeviceToken carries
\* expires_at = issued_at + 30 days exactly, whatever the clock does while
\* the token is being built.
C19_TokenLifetimeExact ==
    IsRegistered =>
        last.response.data.device_token \in ExactTokens(last.body.value.device_id)

\* the operations of SecurityManager on tokens (security.ts lines 180-208):
\* generateDeviceToken and no other
TokenOperations == {"generateDeviceToken"}

\* C18: the token subsystem offers verify as the counterpart of issue: for
\* the token a registration has issued there is an operation, other than the
\* one that issued it, that takes the token (and yields its payload until
\* expires_at, reporting every other token string invalid).
C18_VerifyOffered ==
    IsRegistered =>
        \E operation \in TokenOperations :
            /\ operation # "generateDeviceToken"
            /\ last.response.data.device_token # ""

\* the payload segments a token of d issued by the call that has just
\* completed can have: the base64 text of the payload, for the values
\* Date.now() can have had
PayloadSegments(d) ==
    {btoa(payloadJson(tokenPayload(d, issued, expires))) :
        issued \in {last.at, last.at + 1}, expires \in {last.at, last.at + 1}}

\* C29: the signature segment of every issued token equals
\* base64(HMAC-SHA256(token secret, bytes of the payload segment)), the
\* payload segment being the base64 text before the separator.
C29_SignatureOverPayloadSegment ==
    IsRegistered =>
        \E segment \in PayloadSegments(last.body.value.device_id) :
            last.response.data.device_token
                = segment \o "." \o btoa(HmacSha256(JWT_SECRET, segment))

(***************************************************************************)
(* APIHandlers.getDeviceInfo, the device-information endpoint, and what    *)
(* the responses carry (SpecEndpoints).                                    *)
(***************************************************************************)
\* variant: the record is returned as it is stored
APIHandlers_getDeviceInfo_whole(cache, deviceId, clock, fault) ==
    IF deviceId = "" \/ fault = "get"
    THEN errorResponse(500, "Failed to get device information")
    ELSE LET deviceInfo == getDeviceInfo(cache, deviceId, clock)
         IN  IF IsNull(deviceInfo) THEN errorResponse(404, "Device not found")
             ELSE [status |-> 200, success |-> TRUE, data |-> deviceInfo]

\* the handler: a missing parameter and a failing get end in the catch block
APIHandlers_getDeviceInfo(cache, deviceId, clock, fault) ==
    IF deviceId = "" \/ fault = "get"
    THEN errorResponse(500, "Failed to get device information")
    ELSE LET deviceInfo == getDeviceInfo(cache, deviceId, clock)
         IN  IF IsNull(deviceInfo) THEN errorResponse(404, "Device not found")
             ELSE [status |-> 200, success |-> TRUE,
                   data |-> [device_id |-> deviceInfo.device_id,
                             registered_at |-> deviceInfo.registered_at,
                             last_seen |-> deviceInfo.last_seen,
                             request_count |-> deviceInfo.request_count,
                             device_info |-> deviceInfo.device_info]]

GetDeviceInfoCall ==
    /\ last = NoCall
    /\ \E d \in ParseDevices \cup {"d2", ""}, fault \in {"none", "get"} :
        last' = [op |-> "getDeviceInfo", deviceId |-> d, at |-> now,
                 response |-> APIHandlers_getDeviceInfo(CACHE, d, now, fault)]
    /\ UNCHANGED <<now, CACHE, RATE_LIMIT, admitted, procs, audit>>

NextEndpoints == NextParse \/ GetDeviceInfoCall

SpecEndpoints == Init /\ [][NextEndpoints]_vars

\* every key_seed the server can have derived so far
KeySeeds ==
    {generateKeySeed(d, t) :
        d \in DeviceIds,
        t \in (0..MaxNow) \cup (EpochStart..(EpochStart + MaxNow))}

CarriesKeySeed(response) ==
    \/ "key_seed" \in DOMAIN response
    \/ "error" \in DOMAIN response /\ response.error \in KeySeeds
    \/ /\ "data" \in DOMAIN response
       /\ \/ "key_seed" \in DOMAIN response.data
          \/ "text" \in DOMAIN response.data /\ response.data.text \in KeySeeds
          \/ "device_id" \in DOMAIN response.data /\ response.data.device_id \in KeySeeds
          \/ /\ "device_info" \in DOMAIN response.data
             /\ \E k \in DOMAIN response.data.device_info :
                    response.data.device_info[k] \in KeySeeds

\* C20: a device's key_seed leaves the server only in the response of the
\* registerDevice call that derived it: no response of the device-information
\* endpoint or of parseExpense, in any state, contains a key_seed.
C20_KeySeedOnlyAtRegistration ==
    /\ last.op = "getDeviceInfo" => ~CarriesKeySeed(last.response)
    /\ \A p \in Procs : At(p, "done") => ~CarriesKeySeed(procs[p].response)
    /\ IsRegistered =>
          last.response.data.key_seed
              = generateKeySeed(last.body.value.device_id, last.at)

\* the endpoint answers for a stored record while a parseExpense request of
\* the device has its response
C20_Witness ==
    /\ last.op = "getDeviceInfo"
    /\ last.response.status = 200
    /\ StoredKeySeed(last.deviceId) \in KeySeeds
    /\ \E p \in Procs : At(p, "done") /\ procs[p].response.status = 200

(***************************************************************************)
(* APIHandlers.parseExpense as one call, with no other call between its    *)
(* steps, next to registerDevice calls of both devices (SpecHandlers).     *)
(***************************************************************************)
\* the headers of a request, by name; an absent header is the empty value
Headers(deviceId, timestamp, signature, deviceToken) ==
    ("x-device-id" :> deviceId) @@ ("x-timestamp" :> timestamp)
        @@ ("x-signature" :> signature) @@ ("x-device-token" :> deviceToken)

\* c.req.header(name)
header(headers, name) == headers[name]

\* variant: a request without x-device-token counts as one without device id
requestHeaders_tokenRequired(headers) ==
    [deviceId |-> IF header(headers, "x-device-token") = "" THEN ""
                  ELSE header(headers, "x-device-id"),
     timestamp |-> header(headers, "x-timestamp"),
     signature |-> header(headers, "x-signature")]

\* handler lines 342-344: the three headers the handler reads
requestHeaders(headers) ==
    [deviceId |-> header(headers, "x-device-id"),
     timestamp |-> header(headers, "x-timestamp"),
     signature |-> header(headers, "x-signature")]

NoError == Error("none", "")

\* the step of the call that fails for a reason outside the program
HandlerFaults == {"none", "rl_get", "rl_put", "vs_get", "touch_get", "touch_put",
                  "parse"}

FaultOf(fault, names) == IF fault \in DOMAIN names THEN names[fault] ELSE "none"

\* variant: the signature is verified first and checkRateLimit is called
\* for the requests that pass it
parseExpense_verifyFirst(cache, rateLimit, headers, rawRequestBody, clock, fault) ==
    LET h == requestHeaders(headers)
        validated == parseExpenseValidate(h.deviceId, h.timestamp, h.signature,
                                          rawRequestBody)
        caught(error, rl, kv, verified) ==
            [response |-> parseExpenseCatch(error), error |-> error,
             cache |-> kv, rateLimit |-> rl, verified |-> verified]
    IN  IF validated.kind = "throw"
        THEN caught(validated.error, rateLimit, cache, FALSE)
        ELSE
        LET isValidSignature ==
                verifySignature(cache, h.deviceId, h.timestamp, h.signature,
                                rawRequestBody, clock,
                                FaultOf(fault, ("vs_get" :> "get"))).value
            gate == signatureGate(isValidSignature)
            limited == checkRateLimit(rateLimit, h.deviceId, clock,
                           FaultOf(fault, ("rl_get" :> "get") @@ ("rl_put" :> "put")))
            touched == updateDeviceLastSeen(cache, h.deviceId, clock)
        IN  IF gate.kind = "throw"
            THEN caught(gate.error, rateLimit, cache, FALSE)
            ELSE IF limited.outcome.kind = "throw"
            THEN caught(Error(limited.outcome.error, "Rate limit exceeded"),
                        limited.rateLimit, cache, TRUE)
            ELSE IF fault = "touch_get"
                    \/ (fault = "touch_put"
                           /\ ~IsNull(getDeviceInfo(cache, h.deviceId, clock)))
            THEN caught(StoreError, limited.rateLimit, cache, TRUE)
            ELSE IF fault = "parse"
            THEN caught(Error("APIError", "upstream failure"),
                        limited.rateLimit, touched, TRUE)
            ELSE [response |-> parseSuccess([text |-> validated.value.text]),
                  error |-> NoError, cache |-> touched,
                  rateLimit |-> limited.rateLimit, verified |-> TRUE]

\* the handler from the request to the response and the two stores
parseExpense(cache, rateLimit, headers, rawRequestBody, clock, fault) ==
    LET h == requestHeaders(headers)
        validated == parseExpenseValidate(h.deviceId, h.timestamp, h.signature,
                                          rawRequestBody)
        caught(error, rl, kv, verified) ==
            [response |-> parseExpenseCatch(error), error |-> error,
             cache |-> kv, rateLimit |-> rl, verified |-> verified]
    IN  IF validated.kind = "throw"
        THEN caught(validated.error, rateLimit, cache, FALSE)
        ELSE
        LET limited == checkRateLimit(rateLimit, h.deviceId, clock,
                           FaultOf(fault, ("rl_get" :> "get") @@ ("rl_put" :> "put")))
        IN  IF limited.outcome.kind = "throw"
            THEN caught(Error(limited.outcome.error, "Rate limit exceeded"),
                        limited.rateLimit, cache, FALSE)
            ELSE
            LET isValidSignature ==
                    verifySignature(cache, h.deviceId, h.timestamp, h.signature,
                                    rawRequestBody, clock,
                                    FaultOf(fault, ("vs_get" :> "get"))).value
                gate == signatureGate(isValidSignature)
                touched == updateDeviceLastSeen(cache, h.deviceId, clock)
            IN  IF gate.kind = "throw"
                THEN caught(gate.error, limited.rateLimit, cache, FALSE)
                ELSE IF fault = "touch_get"
                        \/ (fault = "touch_put"
                               /\ ~IsNull(getDeviceInfo(cache, h.deviceId, clock)))
                THEN caught(StoreError, limited.rateLimit, cache, TRUE)
                ELSE IF fault = "parse"
                THEN caught(Error("APIError", "upstream failure"),
                            limited.rateLimit, touched, TRUE)
                ELSE [response |-> parseSuccess([text |-> validated.value.text]),
                      error |-> NoError, cache |-> touched,
                      rateLimit |-> limited.rateLimit, verified |-> TRUE]

\* x-device-token values: none, a token the server issued, any other text
DeviceTokenInputs == {"", generateDeviceToken("d1", 0, 0), "garbage"}

\* the requests tried in a state: those of d1 with every header input, token
\* and body, and a failing step where the request gets as far as the stores;
\* those of d2 signed and without a token
HandlerBodies == {renderExpense("tea", ""), renderExpense("", ""), "tea"}

RequestInputs(cache, clock) ==
    {[headers |-> Headers(h.deviceId, h.timestamp, h.signature, t),
      rawRequestBody |-> raw, fault |-> fault] :
        raw \in HandlerBodies,
        h \in HeaderInputsFor({"d1"}, cache, clock, renderExpense("tea", "")),
        t \in DeviceTokenInputs,
        fault \in HandlerFaults}
    \cup {[headers |-> Headers(h.deviceId, h.timestamp, h.signature, ""),
           rawRequestBody |-> renderExpense("tea", ""), fault |-> "none"] :
            h \in {x \in HeaderInputsFor({"d2"}, cache, clock,
                                          renderExpense("tea", "")) :
                       x.deviceId = "d2"}}

\* the request is rejected before the first store access
RejectedEarly(request) ==
    LET h == requestHeaders(request.headers)
    IN  parseExpenseValidate(h.deviceId, h.timestamp, h.signature,
                             request.rawRequestBody).kind = "throw"

ParseExpenseCall ==
    /\ last = NoCall
    /\ \E request \in RequestInputs(CACHE, now) :
        LET d == header(request.headers, "x-device-id")
            run == parseExpense(CACHE, RATE_LIMIT, request.headers,
                                request.rawRequestBody, now, request.fault)
        IN  /\ d \in DeviceIds => TouchesAhead(d) < MaxCount
            /\ RejectedEarly(request) => request.fault = "none"
            /\ CACHE' = run.cache
            /\ RATE_LIMIT' = run.rateLimit
            /\ audit' = IF run.verified
                        THEN [audit EXCEPT ![d].verified = @ + 1]
                        ELSE audit
            /\ last' = [op |-> "parseExpense", headers |-> request.headers,
                        rawRequestBody |-> request.rawRequestBody, at |-> now,
                        fault |-> request.fault,
                        response |-> run.response, error |-> run.error,
                        windowBefore |-> IF d \in DeviceIds
                                         THEN storedWindow(RATE_LIMIT, d, now)
                                         ELSE <<>>]
            /\ UNCHANGED <<now, admitted, procs>>

HandlersRegister ==
    RegisterDeviceCall({registrationBody(d, InfoA) : d \in DeviceIds}
                           \cup {registrationBody("d1", InfoWeb), NotJson},
                       {0}, {"none", "put"})

HandlersTick == now < MaxHandlersNow /\ Tick

NextHandlers == ParseExpenseCall \/ HandlersRegister \/ Observed \/ HandlersTick

SpecHandlers == Init /\ [][NextHandlers]_vars

IsParseCall == last.op = "parseExpense"

\* the request of the call carries the three required headers and a body
\* that is JSON text accepted by the schema
IsWellFormedRequest ==
    /\ header(last.headers, "x-device-id") # ""
    /\ header(last.headers, "x-timestamp") # <<>>
    /\ header(last.headers, "x-signature") # ""
    /\ JSONparseBody(last.rawRequestBody).ok
    /\ lengthBetween(JSONparseBody(last.rawRequestBody).value.text, 1, 5000)

\* C21: the x-device-token header has no influence: the request of the call,
\* with any other x-device-token value or with none, run from the same
\* stores and clock, gives the same response and the same stores.
C21_DeviceTokenIgnored ==
    [][(last = NoCall /\ last'.op = "parseExpense") =>
          \A t \in DeviceTokenInputs :
              LET other == parseExpense(CACHE, RATE_LIMIT,
                               [last'.headers EXCEPT !["x-device-token"] = t],
                               last'.rawRequestBody, now, last'.fault)
              IN  /\ other.response = last'.response
                  /\ other.cache = CACHE'
                  /\ other.rateLimit = RATE_LIMIT']_vars

\* a request that carries a text that is no token the server issued, and is
\* answered with the parse result
C21_Witness ==
    /\ IsParseCall
    /\ header(last.headers, "x-device-token") = "garbage"
    /\ last.response.status = 200
    /\ getDeviceInfo(CACHE, header(last.headers, "x-device-id"), now).request_count = 2

\* the rate limiter rejects the request of the call: its get succeeds and
\* the window it reads holds the ceiling or more of timestamps newer than
\* now - 60 s
RateLimiterRejects ==
    /\ IsParseCall
    /\ IsWellFormedRequest
    /\ last.fault = "none"
    /\ Len(CountedBefore) >= RATE_LIMIT_PER_MINUTE

\* C22: a parseExpense request that the rate limiter rejects is answered
\* with the RateLimitExceeded kind, status 429, which is neither the status
\* of an authentication failure nor that of an internal failure.
C22_RateLimitedIs429 ==
    RateLimiterRejects => last.response.status = 429

\* C23: a parseExpense request with a required header missing, or with a
\* body that is no JSON, is answered with the ValidationError kind, status
\* 400.
C23_MalformedIs400 ==
    ( /\ IsParseCall
      /\ \/ header(last.headers, "x-device-id") = ""
         \/ header(last.headers, "x-timestamp") = <<>>
         \/ header(last.headers, "x-signature") = ""
         \/ ~JSONparseBody(last.rawRequestBody).ok )
    => last.response.status = 400

\* the device id a call names, if any
CallDevice(call) ==
    IF call.op = "parseExpense" THEN header(call.headers, "x-device-id")
    ELSE IF call.body.json THEN call.body.value.device_id
    ELSE ""

IsResponse(response) ==
    /\ DOMAIN response \in {{"status", "success", "data"}, {"status", "success", "error"}}
    /\ response.status \in {200, 400, 401, 500}
    /\ response.success <=> response.status = 200
    /\ response.success <=> "data" \in DOMAIN response

\* C24: every registerDevice and parseExpense call ends with one response,
\* a success or an error response, whatever step fails (store get or put,
\* signature check, rate limit, parsing collaborator); and a call that
\* names one device leaves the stored record and rate window of every other
\* device as they were.
C24_FailureScopedToRequest ==
    [][(last = NoCall /\ last'.op \in {"parseExpense", "registerDevice"}) =>
          /\ IsResponse(last'.response)
          /\ \A e \in DeviceIds \ {CallDevice(last')} :
                 CACHE'[e] = CACHE[e] /\ RATE_LIMIT'[e] = RATE_LIMIT[e]
          /\ ~last'.response.success =>
                 \A e \in DeviceIds :
                     CACHE'[e] # CACHE[e] =>
                         /\ e = CallDevice(last')
                         /\ last'.fault = "parse"]_vars

\* the put of the touched record fails in a request of d1 while d2 has a
\* record and a rate window stored
C24_Witness ==
    /\ IsParseCall
    /\ last.fault = "touch_put"
    /\ last.response.status = 500
    /\ header(last.headers, "x-device-id") = "d1"
    /\ RecordExists("d2", now)
    /\ RATE_LIMIT["d2"].present

\* C32: a parseExpense request that lacks a required header, has a body that
\* is no JSON or a body failing the schema is rejected before any store
\* access: the rate window and the device record of every device are as they
\* were, and the parsing collaborator is not reached (the response is neither
\* its result nor its failure).
C32_MalformedTouchesNothing ==
    [][(last = NoCall /\ last'.op = "parseExpense"
           /\ ~(IsWellFormedRequest)') =>
          /\ CACHE' = CACHE
          /\ RATE_LIMIT' = RATE_LIMIT
          /\ ~last'.response.success
          /\ last'.error.name \in {"AuthenticationError", "ValidationError", "ZodError"}]_vars

\* a request of a registered device whose ceiling is not reached, correctly
\* signed headers, with a body the schema refuses
C32_Witness ==
    /\ IsParseCall
    /\ last.rawRequestBody = renderExpense("", "")
    /\ header(last.headers, "x-device-id") = "d1"
    /\ RecordExists("d1", now)
    /\ header(last.headers, "x-signature")
         = clientSignature(StoredKeySeed("d1"), header(last.headers, "x-timestamp"),
                           "d1", renderExpense("tea", ""))
    /\ Len(storedWindow(RATE_LIMIT, "d1", now)) = 1
    /\ last.response.status = 400

\* C31: a rate-limit slot is recorded against the claimed x-device-id before
\* the signature is looked at: every parseExpense request that passes the
\* header and body-schema tests and is not over the ceiling appends its
\* timestamp to the window of that device id, also when its signature is
\* then rejected and when the device id is not registered.
C31_SlotRecordedBeforeSignature ==
    ( /\ IsParseCall
      /\ IsWellFormedRequest
      /\ last.fault \notin {"rl_get", "rl_put"}
      /\ Len(CountedBefore) < RATE_LIMIT_PER_MINUTE )
    => storedWindow(RATE_LIMIT, header(last.headers, "x-device-id"), now)
           = Append(CountedBefore, last.at)

\* the second request sent under a device id that was never registered: it
\* is refused for its signature and the window of the id holds two slots
C31_Witness ==
    /\ IsParseCall
    /\ IsWellFormedRequest
    /\ last.fault = "none"
    /\ ~CACHE[header(last.headers, "x-device-id")].present
    /\ last.response = errorResponse(401, "Invalid request signature")
    /\ Len(last.windowBefore) = 1
    /\ Len(storedWindow(RATE_LIMIT, header(last.headers, "x-device-id"), now)) = 2

(***************************************************************************)
(* checkRateLimit and updateDeviceLastSeen calls of both devices, one      *)
(* after another, next to registrations (SpecPerDevice).                   *)
(***************************************************************************)
PerDeviceRegister ==
    RegisterDeviceCall({registrationBody(d, InfoA) : d \in DeviceIds}, {0}, {"none"})

NextPerDevice ==
    \/ CheckRateLimitCall
    \/ UpdateDeviceLastSeenCall
    \/ PerDeviceRegister
    \/ Observed
    \/ HandlersTick

SpecPerDevice == Init /\ [][NextPerDevice]_vars

\* whether a checkRateLimit call of d made now on the window stored returns
Admits(rateLimit, d, clock) ==
    Len(SelectSeq(storedWindow(rateLimit, d, clock),
                  LAMBDA t : t > clock - SecondsToTicks(60)))
        < RATE_LIMIT_PER_MINUTE

\* C33: rate limiting and registry updates are per device: a
\* checkRateLimit(d) or updateDeviceLastSeen(d) call leaves the window and
\* the record of every other device d' as they were, and with them the
\* outcome of a checkRateLimit(d') call; checkRateLimit writes no device
\* record and updateDeviceLastSeen no window.  Holding of every call, it
\* holds of every sequence of calls.
C33_PerDevice ==
    [][(last = NoCall /\ last'.op \in {"checkRateLimit", "updateDeviceLastSeen"}) =>
          /\ \A e \in DeviceIds \ {last'.deviceId} :
                 /\ RATE_LIMIT'[e] = RATE_LIMIT[e]
                 /\ CACHE'[e] = CACHE[e]
                 /\ Admits(RATE_LIMIT', e, now') <=> Admits(RATE_LIMIT, e, now)
                 /\ checkRateLimit(RATE_LIMIT', e, now', "none").outcome
                      = checkRateLimit(RATE_LIMIT, e, now, "none").outcome
          /\ last'.op = "checkRateLimit" => CACHE' = CACHE
          /\ last'.op = "updateDeviceLastSeen" => RATE_LIMIT' = RATE_LIMIT]_vars

\* d1 is at its ceiling and refused while d2, with a record and one slot
\* stored, would be admitted
C33_Witness ==
    /\ last.op = "checkRateLimit"
    /\ last.deviceId = "d1"
    /\ last.outcome = Throw("RateLimitError")
    /\ RecordExists("d1", now)
    /\ RecordExists("d2", now)
    /\ JSONparse(CACHE["d1"].value).request_count > 0
    /\ Len(storedWindow(RATE_LIMIT, "d2", now)) = 1
    /\ Admits(RATE_LIMIT, "d2", now)

====
